---- MODULE Spec2Model ----
(***************************************************************************)
(* speedrunner-tui (src/main.go): the notification client, the bubbletea   *)
(* model (initialModel / Update / renderContent / View), the browser       *)
(* launcher and main, as one state machine.                                *)
(*                                                                         *)
(* Strings that the program splits into lines are sequences of tokens: a   *)
(* token is a piece of text without a newline, or the newline itself.      *)
(***************************************************************************)
EXTENDS Integers, Sequences, FiniteSets, TLC

VARIABLES
    pc,        \* position of main: "start", "fetch", "program", "run", "exited"
    args,      \* the command line: [given, arg] of -session
    goos,      \* runtime.GOOS of the build
    sessionID, \* *sessionID after flag.Parse
    exitCode,  \* process exit status, -1 while the process runs
    requests,  \* the HTTP requests handed to httpClient.Do so far
    http,      \* what httpClient.Do produced for the request
    fetched,   \* what GetNotifications returned
    m,         \* the bubbletea model held by the program
    msg,       \* the message Update processed last
    cmd,       \* the command Update returned last
    quitting,  \* a tea.Quit command was returned: its QuitMsg is on the way
    launches,  \* the calls of openBrowser made by the last Update
    view       \* the last frame painted: View() of the model

vars == <<pc, args, goos, sessionID, exitCode, requests, http, fetched, m,
          msg, cmd, quitting, launches, view>>

-----------------------------------------------------------------------------
(* Bounds of the model *)

\* longest notification list a response carries
MaxN == 3
-----------------------------------------------------------------------------
(* Sequence helpers *)

\* the text of a run of tokens
RECURSIVE Concat(_)
Concat(tokens) == IF tokens = <<>> THEN "" ELSE Head(tokens) \o Concat(Tail(tokens))

Max(a, b) == IF a > b THEN a ELSE b
Min(a, b) == IF a < b THEN a ELSE b
\* integer division of Go: the quotient is truncated toward zero
Quo(a, b) == IF a >= 0 THEN a \div b ELSE -((-a) \div b)
\* clamp of bubbles/viewport: the limits are put in order first
Clamp(v, low, high) ==
    IF high < low THEN Min(low, Max(high, v)) ELSE Min(high, Max(low, v))

\* strings.Split(s, "\n") on a token string: the runs of tokens between newlines
RECURSIVE SplitAcc(_, _, _)
SplitAcc(s, nl, cur) ==
    IF s = <<>> THEN <<cur>>
    ELSE IF Head(s) = nl THEN <<cur>> \o SplitAcc(Tail(s), nl, <<>>)
    ELSE SplitAcc(Tail(s), nl, Append(cur, Head(s)))

Split(s, nl) == SplitAcc(s, nl, <<>>)

\* strings.Join(lines, "\n")
RECURSIVE Join(_, _)
Join(parts, nl) ==
    IF parts = <<>> THEN <<>>
    ELSE IF Len(parts) = 1 THEN Head(parts)
    ELSE Head(parts) \o <<nl>> \o Join(Tail(parts), nl)

-----------------------------------------------------------------------------
(* API types *)

NoErr == [kind |-> "nil", code |-> 0, body |-> <<>>]

Notification(id, title, path, read, date) ==
    [ID |-> id, Title |-> title, Path |-> path, Read |-> read, Date |-> date]

NewPagination(count, pg, pgs, per) ==
    [Count |-> count, Page |-> pg, Pages |-> pgs, Per |-> per]

ZeroPagination == NewPagination(0, 0, 0, 0)

\* the zero value of NotificationResponse
ZeroResponse ==
    [UnreadCount |-> 0, Notifications |-> <<>>, Pagination |-> ZeroPagination]

baseURL == "https://www.speedrun.com/api/v2"

-----------------------------------------------------------------------------
(* The client and its request *)

NewClient(session) == [sessionID |-> session, Timeout |-> 10]

\* the request GetNotifications builds
NewRequest(c) ==
    [Method |-> "POST", URL |-> baseURL \o "/GetNotifications",
     JSONBody |-> [U |-> 1, I |-> 1],
     Cookie |-> [Name |-> "PHPSESSID", Value |-> c.sessionID]]

-----------------------------------------------------------------------------
(* Inputs: what the server may answer *)

Pool ==
    << Notification("n1", "New run verified", "/smb1/run/1", FALSE, 1700000000),
       Notification("n2", "Comment on your run", "/user/gue/comments", TRUE, 0),
       Notification("n3", "Moderator message", "/messages/3", FALSE, 951782399),
       Notification("n4", "Thread reply", "/forums/t/4", TRUE, 1709251200) >>

\* notification lists of length 0..MaxN, each starting elsewhere in the pool
NotifLists ==
    { [i \in 1..n |-> Pool[((n + i - 1) % Len(Pool)) + 1]] : n \in 0..MaxN }

CountUnread(list) == Cardinality({i \in DOMAIN list : ~list[i].Read})

\* A response body: text that is not JSON, or a JSON object with the keys it
\* holds and their values.
TextBody(raw) == [raw |-> raw, valid |-> FALSE, keys |-> {}, value |-> ZeroResponse]

JsonBody(keys, value) ==
    [raw |-> "json", valid |-> TRUE, keys |-> keys, value |-> value]

AllKeys == {"unreadCount", "notifications", "pagination"}

Bodies ==
    { TextBody("Unauthorized"), TextBody(""), JsonBody({}, ZeroResponse) }
    \cup
    { JsonBody(AllKeys,
               [UnreadCount |-> CountUnread(list), Notifications |-> list,
                Pagination |-> NewPagination(Len(list), 1, 1, 20)]) :
        list \in NotifLists }

StatusOK == 200

Statuses == {StatusOK, 201, 401, 500}

\* what httpClient.Do returns: a transport error, or a response
HttpOutcomes ==
    { [transport |-> "error", StatusCode |-> 0, Body |-> TextBody("")] }
    \cup
    { [transport |-> "ok", StatusCode |-> st, Body |-> b] :
        st \in Statuses, b \in Bodies }

NoOutcome == [transport |-> "none", StatusCode |-> 0, Body |-> TextBody("")]

-----------------------------------------------------------------------------
(* GetNotifications *)

\* json.NewDecoder(body).Decode(&result): each key the object holds sets its
\* field, the other fields keep their zero value; text that is not JSON fails
Decode(body) ==
    IF ~body.valid THEN [ok |-> FALSE, result |-> ZeroResponse]
    ELSE [ok |-> TRUE,
          result |->
            [UnreadCount |-> IF "unreadCount" \in body.keys
                             THEN body.value.UnreadCount ELSE 0,
             Notifications |-> IF "notifications" \in body.keys
                               THEN body.value.Notifications ELSE <<>>,
             Pagination |-> IF "pagination" \in body.keys
                            THEN body.value.Pagination ELSE ZeroPagination]]

Errorf(kind, code, body) == [kind |-> kind, code |-> code, body |-> body]

\* a variant of GetNotifications without the check of the status code
GetNotifications_NoStatusCheck(c, out) ==
    IF out.transport # "ok"
    THEN [ok |-> FALSE, result |-> ZeroResponse, decoded |-> FALSE,
          err |-> Errorf("sending request", 0, <<>>)]
    ELSE LET d == Decode(out.Body) IN
         IF ~d.ok
         THEN [ok |-> FALSE, result |-> ZeroResponse, decoded |-> TRUE,
               err |-> Errorf("decoding response", 0, <<>>)]
         ELSE [ok |-> TRUE, result |-> d.result, decoded |-> TRUE, err |-> NoErr]

\* GetNotifications, given what Do returns for its request. decoded tells
\* whether the JSON decoder was run on the body.
GetNotifications(c, out) ==
    IF out.transport # "ok"
    THEN [ok |-> FALSE, result |-> ZeroResponse, decoded |-> FALSE,
          err |-> Errorf("sending request", 0, <<>>)]
    ELSE IF out.StatusCode # StatusOK
    THEN [ok |-> FALSE, result |-> ZeroResponse, decoded |-> FALSE,
          err |-> Errorf("unexpected status code", out.StatusCode, <<out.Body>>)]
    ELSE LET d == Decode(out.Body) IN
         IF ~d.ok
         THEN [ok |-> FALSE, result |-> ZeroResponse, decoded |-> TRUE,
               err |-> Errorf("decoding response", 0, <<>>)]
         ELSE [ok |-> TRUE, result |-> d.result, decoded |-> TRUE, err |-> NoErr]

NotFetched ==
    [ok |-> FALSE, result |-> ZeroResponse, decoded |-> FALSE, err |-> NoErr]

-----------------------------------------------------------------------------
(* Rendering *)

Pad2(n) == IF n < 10 THEN "0" \o ToString(n) ELSE ToString(n)

Pad4(n) ==
    IF n < 10 THEN "000" \o ToString(n)
    ELSE IF n < 100 THEN "00" \o ToString(n)
    ELSE IF n < 1000 THEN "0" \o ToString(n)
    ELSE ToString(n)

\* the calendar date of a day number counted from 1970-01-01
CivilFromDays(days) ==
    LET z == days + 719468
        era == z \div 146097
        doe == z - era * 146097
        yoe == (doe - doe \div 1460 + doe \div 36524 - doe \div 146096) \div 365
        doy == doe - (365 * yoe + yoe \div 4 - yoe \div 100)
        mp == (5 * doy + 2) \div 153
        d == doy - (153 * mp + 2) \div 5 + 1
        mo == IF mp < 10 THEN mp + 3 ELSE mp - 9
        y == yoe + era * 400 + (IF mo <= 2 THEN 1 ELSE 0)
    IN  [year |-> y, month |-> mo, day |-> d]

\* time.Unix(sec, 0).Format("2006-01-02 15:04:05") in a zone `offset` seconds
\* east of UTC
FormatDate(sec, offset) ==
    LET t == sec + offset
        c == CivilFromDays(t \div 86400)
        r == t % 86400
    IN  Pad4(c.year) \o "-" \o Pad2(c.month) \o "-" \o Pad2(c.day) \o " "
        \o Pad2(r \div 3600) \o ":" \o Pad2((r % 3600) \div 60) \o ":"
        \o Pad2(r % 60)

\* the zone of the process (time.Local): UTC
LocalOffset == 0

NL == "\n"

\* the check mark U+2713
readDotStyle == "v"
unreadDotStyle == "!"

\* renderNotification: status and timestamp, the title, the URL
renderNotification(n) ==
    LET readStatus == IF n.Read THEN readDotStyle ELSE unreadDotStyle
        date == FormatDate(n.Date, LocalOffset)
    IN  << "[" \o readStatus \o "] " \o date, NL,
           n.Title, NL,
           "speedrun.com" \o n.Path >>

\* one styled token of the content
Styled(style, text) == [style |-> style, text |-> text]

SNL == Styled("", NL)

\* Style.Render of the two item styles: a border above and below, and every
\* line of the text between the left and right borders
StyleRender(style, str) ==
    LET rows == Split(str, NL)
        body == [i \in 1..Len(rows) |->
                    <<Styled(style, Concat(rows[i]))>>]
    IN  Join(<< <<Styled(style, "border-top")>> >> \o body
                 \o << <<Styled(style, "border-bottom")>> >>, SNL)

RECURSIVE renderItems(_, _, _)
renderItems(items, sel, i) ==
    IF i > Len(items) THEN <<>>
    ELSE LET style == IF i - 1 = sel THEN "selected" ELSE "unselected"
         IN  StyleRender(style, renderNotification(items[i]))
             \o <<SNL>> \o renderItems(items, sel, i + 1)

\* renderContent at the fields it reads
renderContentOf(items, sel) == renderItems(items, sel, 1)

-----------------------------------------------------------------------------
(* Messages of the event loop *)

KeyMsg(k) == [type |-> "key", key |-> k, Width |-> 0, Height |-> 0]
MouseMsg(button) == [type |-> "mouse", key |-> button, Width |-> 0, Height |-> 0]
WindowSizeMsg(w, h) == [type |-> "size", key |-> "", Width |-> w, Height |-> h]
NoMsg == [type |-> "none", key |-> "", Width |-> 0, Height |-> 0]

-----------------------------------------------------------------------------
(* The scrollable viewport (bubbles/viewport) as the program uses it *)

\* lines the rounded border of v.Style takes: one above, one below
BorderFrame == 2

\* viewport.New(width, height) with the style initialModel sets
viewportNew(w, h) ==
    [Width |-> w, Height |-> h, YOffset |-> 0, lines |-> <<>>,
     KeyMap |-> "default", MouseWheelEnabled |-> TRUE, MouseWheelDelta |-> 3,
     Frame |-> BorderFrame, initialized |-> TRUE]

\* the zero value viewport.Model{} of model{err: err}
viewportZero ==
    [Width |-> 0, Height |-> 0, YOffset |-> 0, lines |-> <<>>,
     KeyMap |-> "none", MouseWheelEnabled |-> FALSE, MouseWheelDelta |-> 0,
     Frame |-> 0, initialized |-> FALSE]

maxYOffset(v) == Max(0, Len(v.lines) - v.Height + v.Frame)

AtTop(v) == v.YOffset <= 0
AtBottom(v) == v.YOffset >= maxYOffset(v)

SetYOffset(v, n) == [v EXCEPT !.YOffset = Clamp(n, 0, maxYOffset(v))]

LineDown(v, n) ==
    IF AtBottom(v) \/ n = 0 \/ Len(v.lines) = 0 THEN v
    ELSE SetYOffset(v, v.YOffset + n)

LineUp(v, n) ==
    IF AtTop(v) \/ n = 0 \/ Len(v.lines) = 0 THEN v
    ELSE SetYOffset(v, v.YOffset - n)

GotoBottom(v) == SetYOffset(v, maxYOffset(v))

\* viewport.SetContent(s)
SetContent(v, s) ==
    LET w == [v EXCEPT !.lines = Split(s, SNL)]
    IN  IF w.YOffset > Len(w.lines) - 1 THEN GotoBottom(w) ELSE w

\* the key bindings of viewport.DefaultKeyMap
ViewportBinding(key) ==
    CASE key \in {"pgdown", " ", "f"} -> "PageDown"
      [] key \in {"pgup", "b"} -> "PageUp"
      [] key \in {"u", "ctrl+u"} -> "HalfPageUp"
      [] key \in {"d", "ctrl+d"} -> "HalfPageDown"
      [] key \in {"up", "k"} -> "Up"
      [] key \in {"down", "j"} -> "Down"
      [] OTHER -> "none"

\* setInitialValues: the default key map and the mouse wheel
setInitialValues(v) ==
    [v EXCEPT !.KeyMap = "default", !.MouseWheelEnabled = TRUE,
              !.MouseWheelDelta = 3, !.initialized = TRUE]

\* viewport.Update(msg) on a viewport that has its initial values
updateAsModel(v, message) ==
    IF message.type = "key" /\ v.KeyMap = "default"
    THEN LET b == ViewportBinding(message.key) IN
         CASE b = "PageDown" -> IF AtBottom(v) THEN v ELSE LineDown(v, v.Height)
           [] b = "PageUp" -> IF AtTop(v) THEN v ELSE LineUp(v, v.Height)
           [] b = "HalfPageDown" -> LineDown(v, Quo(v.Height, 2))
           [] b = "HalfPageUp" -> LineUp(v, Quo(v.Height, 2))
           [] b = "Down" -> LineDown(v, 1)
           [] b = "Up" -> LineUp(v, 1)
           [] OTHER -> v
    ELSE IF message.type = "mouse" /\ v.MouseWheelEnabled
    THEN CASE message.key = "wheel up" -> LineUp(v, v.MouseWheelDelta)
           [] message.key = "wheel down" -> LineDown(v, v.MouseWheelDelta)
           [] OTHER -> v
    ELSE v

\* viewport.Update(msg): a viewport that was not built by viewport.New gets
\* its initial values first
viewportUpdate(v, message) ==
    updateAsModel(IF v.initialized THEN v ELSE setInitialValues(v), message)

\* viewport.View(): the lines in the window
visibleLines(v) ==
    LET h == v.Height - v.Frame
        top == Max(0, v.YOffset)
        bottom == Clamp(v.YOffset + h, top, Len(v.lines))
    IN  IF Len(v.lines) > 0 THEN SubSeq(v.lines, top + 1, bottom) ELSE <<>>

-----------------------------------------------------------------------------
(* The browser launcher *)

\* runtime.GOOS: the three platforms of the switch and one outside it
GOOSes == {"linux", "windows", "darwin", "plan9"}

\* openBrowser(url) on platform os; started tells whether Start() succeeded
openBrowser(url, os, started) ==
    LET argv == CASE os = "linux" -> <<"xdg-open", url>>
                  [] os = "windows" -> <<"cmd", "/c", "start", url>>
                  [] os = "darwin" -> <<"open", url>>
                  [] OTHER -> <<>>
    IN  [url |-> url, argv |-> argv,
         returned |-> IF argv = <<>> THEN "unsupported platform"
                 ELSE IF started THEN "nil" ELSE "exec"]

-----------------------------------------------------------------------------
(* The TUI model *)

\* model{}: every field at its zero value
ZeroModel ==
    [err |-> NoErr, notifications |-> <<>>, viewport |-> viewportZero,
     selected |-> 0, unreadCount |-> 0, pagination |-> ZeroPagination,
     width |-> 0, height |-> 0]

\* initialModel, given what GetNotifications returned
initialModel(got) ==
    IF got.err.kind # "nil"
    THEN [ZeroModel EXCEPT !.err = got.err]
    ELSE [err |-> NoErr,
          notifications |-> got.result.Notifications,
          viewport |-> viewportNew(78, 20),
          selected |-> 0,
          unreadCount |-> got.result.UnreadCount,
          pagination |-> got.result.Pagination,
          width |-> 0, height |-> 0]

\* model.renderContent()
renderContent(model) == renderContentOf(model.notifications, model.selected)

\* case "up", "k": a variant that wraps from the first item to the last
MoveUp_Wrap(model) ==
    IF model.selected > 0
    THEN [model EXCEPT !.selected = model.selected - 1]
    ELSE [model EXCEPT !.selected = Max(0, Len(model.notifications) - 1)]

\* case "up", "k"
MoveUp(model) ==
    IF model.selected > 0
    THEN [model EXCEPT !.selected = model.selected - 1]
    ELSE model

\* case "down", "j": a variant whose bound is off by one
MoveDown_OffByOne(model) ==
    IF model.selected <= Len(model.notifications) - 1
    THEN [model EXCEPT !.selected = model.selected + 1]
    ELSE model

\* case "down", "j": a variant that tests the bound with # instead of <
MoveDown_NotEqual(model) ==
    IF model.selected # Len(model.notifications) - 1
    THEN [model EXCEPT !.selected = model.selected + 1]
    ELSE model

\* case "down", "j"
MoveDown(model) ==
    IF model.selected < Len(model.notifications) - 1
    THEN [model EXCEPT !.selected = model.selected + 1]
    ELSE model

\* case "enter": a variant that always opens the first notification
EnterURL_First(model) ==
    IF model.selected >= 0 /\ model.selected < Len(model.notifications)
    THEN << "https://www.speedrun.com" \o model.notifications[1].Path >>
    ELSE <<>>

\* case "enter": the URL handed to openBrowser, if a notification is selected
EnterURL(model) ==
    IF model.selected >= 0 /\ model.selected < Len(model.notifications)
    THEN << "https://www.speedrun.com"
            \o model.notifications[model.selected + 1].Path >>
    ELSE <<>>

\* case tea.WindowSizeMsg
ResizeTo(model, message) ==
    [model EXCEPT !.width = message.Width,
                  !.height = message.Height,
                  !.viewport.Width = message.Width - 4,
                  !.viewport.Height = message.Height - 8]

\* the part of Update before the viewport is refreshed: the switch on the
\* message. open holds the URL handed to openBrowser, if any.
UpdateSwitch(model, message) ==
    IF message.type = "key" THEN
        CASE message.key \in {"up", "k"} -> [m |-> MoveUp(model), open |-> <<>>]
          [] message.key \in {"down", "j"} -> [m |-> MoveDown(model), open |-> <<>>]
          [] message.key = "enter" -> [m |-> model, open |-> EnterURL(model)]
          [] OTHER -> [m |-> model, open |-> <<>>]
    ELSE IF message.type = "size" THEN
        [m |-> ResizeTo(model, message), open |-> <<>>]
    ELSE [m |-> model, open |-> <<>>]

\* a variant of the quit keys that leaves out the interrupt
IsQuit_OnlyQ(message) == message.type = "key" /\ message.key = "q"

\* the messages on which Update returns tea.Quit at once
IsQuit(message) == message.type = "key" /\ message.key \in {"q", "ctrl+c"}

\* a variant of the tail of Update that keeps from the viewport the keys the
\* switch handles
UpdateViewport_OwnKeysKept(model, message) ==
    LET withContent == SetContent(model.viewport, renderContent(model))
    IN  IF message.type = "key"
           /\ message.key \in {"up", "k", "down", "j", "enter"}
        THEN [model EXCEPT !.viewport = withContent]
        ELSE [model EXCEPT !.viewport = viewportUpdate(withContent, message)]

\* the tail of Update: the content is rendered and set, then the message is
\* handed to the viewport
UpdateViewport(model, message) ==
    LET withContent == SetContent(model.viewport, renderContent(model))
    IN  [model EXCEPT !.viewport = viewportUpdate(withContent, message)]

\* model.Update(msg): the new model, the command, the URL opened if any
Update(model, message) ==
    IF IsQuit(message)
    THEN [m |-> model, cmd |-> "quit", open |-> <<>>]
    ELSE LET r == UpdateSwitch(model, message)
         IN  [m |-> UpdateViewport(r.m, message), cmd |-> "nil", open |-> r.open]

NoView ==
    [kind |-> "none", err |-> NoErr, lines |-> <<>>, unread |-> 0,
     page |-> 0, pages |-> 0]

\* a variant of View that paints the list whatever err holds
View_NoErrCheck(model) ==
    [kind |-> "list", err |-> NoErr,
     lines |-> visibleLines(model.viewport), unread |-> model.unreadCount,
     page |-> model.pagination.Page, pages |-> model.pagination.Pages]

\* model.View()
View(model) ==
    IF model.err.kind # "nil"
    THEN [kind |-> "error", err |-> model.err, lines |-> <<>>, unread |-> 0,
          page |-> 0, pages |-> 0]
    ELSE [kind |-> "list", err |-> NoErr,
          lines |-> visibleLines(model.viewport), unread |-> model.unreadCount,
          page |-> model.pagination.Page, pages |-> model.pagination.Pages]

-----------------------------------------------------------------------------
(* Inputs of a session *)

\* the -session flag: absent, given empty, given with a value
ArgsSet ==
    { [given |-> FALSE, arg |-> ""],
      [given |-> TRUE, arg |-> ""],
      [given |-> TRUE, arg |-> "abc123"] }

\* flag.String("session", "", ...) after flag.Parse()
ParseSession(a) == IF a.given THEN a.arg ELSE ""

Keys ==
    {"up", "k", "down", "j", "enter", "q", "ctrl+c", "pgdown", "pgup", "x"}

Buttons == {"wheel up", "wheel down"}

\* terminal sizes a resize reports: <<width, height>>
Sizes == { <<80, 24>>, <<40, 12>> }

-----------------------------------------------------------------------------
(* The program *)

Init ==
    /\ pc = "start"
    /\ args \in ArgsSet
    /\ goos \in GOOSes
    /\ sessionID = ""
    /\ exitCode = -1
    /\ requests = <<>>
    /\ http = NoOutcome
    /\ fetched = NotFetched
    /\ m = ZeroModel
    /\ msg = NoMsg
    /\ cmd = "nil"
    /\ quitting = FALSE
    /\ launches = <<>>
    /\ view = NoView

\* a variant of main that goes on without the check of the flag
MainFlags_NoCheck ==
    /\ pc = "start"
    /\ sessionID' = ParseSession(args)
    /\ pc' = "fetch"
    /\ UNCHANGED <<args, goos, exitCode, requests, http, fetched, m, msg, cmd,
                   quitting, launches, view>>

\* main, up to the check of the flag: an empty session ends the process
\* with status 1
MainFlags ==
    /\ pc = "start"
    /\ sessionID' = ParseSession(args)
    /\ IF sessionID' = ""
       THEN pc' = "exited" /\ exitCode' = 1
       ELSE pc' = "fetch" /\ exitCode' = exitCode
    /\ UNCHANGED <<args, goos, requests, http, fetched, m, msg, cmd,
                   quitting, launches, view>>

\* main: NewClient, initialModel (which sends the one request) and
\* tea.NewProgram; nothing is painted yet
MainStart ==
    /\ pc = "fetch"
    /\ \E out \in HttpOutcomes :
         /\ http' = out
         /\ fetched' = GetNotifications(NewClient(sessionID), out)
    /\ requests' = Append(requests, NewRequest(NewClient(sessionID)))
    /\ m' = initialModel(fetched')
    /\ pc' = "program"
    /\ UNCHANGED <<args, goos, sessionID, exitCode, msg, cmd, quitting,
                   launches, view>>

\* p.Run starts: the terminal is set up, Init returns no command, and the
\* first frame is painted
RunStart ==
    /\ pc = "program"
    /\ view' = View(m)
    /\ pc' = "run"
    /\ UNCHANGED <<args, goos, sessionID, exitCode, requests, http, fetched, m,
                   msg, cmd, quitting, launches>>

\* one turn of the event loop on a message read from the terminal: Update,
\* the command it returned handed over to be run, and the repaint. The
\* QuitMsg of a tea.Quit command reaches the loop later.
Deliver(message) ==
    /\ pc = "run"
    /\ \E r \in {Update(m, message)} :
         /\ m' = r.m
         /\ cmd' = r.cmd
         /\ msg' = message
         /\ view' = View(r.m)
         /\ quitting' = (quitting \/ r.cmd = "quit")
         /\ IF r.open = <<>>
            THEN launches' = <<>>
            ELSE \E started \in BOOLEAN :
                    launches' = <<openBrowser(r.open[1], goos, started)>>
    /\ UNCHANGED <<pc, args, goos, sessionID, exitCode, requests, http, fetched>>

KeyPress == \E key \in Keys : Deliver(KeyMsg(key))

Mouse == \E button \in Buttons : Deliver(MouseMsg(button))

Resize == \E size \in Sizes : Deliver(WindowSizeMsg(size[1], size[2]))

\* the loop receives the QuitMsg of a tea.Quit command: p.Run returns
\* without calling Update, and main returns
QuitReceived ==
    /\ pc = "run"
    /\ quitting
    /\ pc' = "exited"
    /\ exitCode' = 0
    /\ UNCHANGED <<args, goos, sessionID, requests, http, fetched, m, msg, cmd,
                   quitting, launches, view>>

\* the loop receives a QuitMsg that no command of Update produced: the one
\* bubbletea's signal handler sends when the process is told to terminate.
\* p.Run returns without calling Update, and main returns
Terminated ==
    /\ pc = "run"
    /\ pc' = "exited"
    /\ exitCode' = 0
    /\ UNCHANGED <<args, goos, sessionID, requests, http, fetched, m, msg, cmd,
                   quitting, launches, view>>

\* p.Run returns an error (no terminal to set up or to read from, before
\* the first frame or later; a failed read; the program killed): main prints
\* it and exits with status 1
RunFails ==
    /\ pc \in {"program", "run"}
    /\ pc' = "exited"
    /\ exitCode' = 1
    /\ UNCHANGED <<args, goos, sessionID, requests, http, fetched, m, msg, cmd,
                   quitting, launches, view>>

Next ==
    \/ MainFlags
    \/ MainStart
    \/ RunStart
    \/ KeyPress
    \/ Mouse
    \/ Resize
    \/ QuitReceived
    \/ Terminated
    \/ RunFails

Spec == Init /\ [][Next]_vars

-----------------------------------------------------------------------------
(* The states of the controller *)

N == Len(m.notifications)

\* the fetch has been made and the model built
Started == pc \in {"program", "run", "exited"} /\ ParseSession(args) # ""

Ready == pc = "run" /\ m.err.kind = "nil"

ErrorState == pc = "run" /\ m.err.kind # "nil"

IsKey(message, keys) == message.type = "key" /\ message.key \in keys

\* a step of the loop in which Update ran on a message: the loop goes on
UpdateStep == pc = "run" /\ pc' = "run"

-----------------------------------------------------------------------------
(* Properties *)

\* C1: with a loaded list of N >= 1 notifications, the selected index is in
\* 0..N-1 in every state reached through key presses and resizes.
C1_SelectedInRange ==
    (Started /\ fetched.ok /\ N >= 1) => (0 <= m.selected /\ m.selected <= N - 1)

\* down was pressed and the selection stands on the last of several items
C1_Witness ==
    /\ Ready /\ N >= 2 /\ m.selected = N - 1
    /\ IsKey(msg, {"down", "j"})

\* C2: one event moves the selected index only as up/k and down/j say: up/k
\* takes s to s-1, and keeps 0 at 0; down/j takes s to s+1 below the last
\* index and keeps the last index; every other event leaves it alone.
C2_Step ==
    UpdateStep =>
        LET s == m.selected IN
        /\ IsKey(msg', {"up", "k"}) =>
              /\ s > 0 => m'.selected = s - 1
              /\ s = 0 => m'.selected = 0
        /\ IsKey(msg', {"down", "j"}) =>
              /\ s < N - 1 => m'.selected = s + 1
              /\ s >= N - 1 => m'.selected = s
        /\ ~IsKey(msg', {"up", "k", "down", "j"}) => m'.selected = s

C2_SelectionMoves == [][C2_Step]_vars

\* up was pressed with the selection on the first of several items
C2_Witness ==
    /\ Ready /\ N >= 2 /\ m.selected = 0
    /\ IsKey(msg, {"up", "k"})

\* C3: with an empty list the selected index keeps its initial value 0 and
\* the browser is never launched: no Update calls openBrowser.
C3_EmptyList ==
    (Started /\ fetched.ok /\ N = 0) => (m.selected = 0 /\ launches = <<>>)

\* enter was pressed on an empty list
C3_Witness ==
    /\ Ready /\ N = 0 /\ IsKey(msg, {"enter"})

\* C4: in the ready state with a non-empty list, an enter makes exactly one
\* call of the launcher, with the site origin followed by the path of the
\* selected notification, and the controller goes on the same way whatever
\* the launcher returned: selection, dimensions and error field as they
\* were, still ready.
C4_Step ==
    (Ready /\ UpdateStep /\ N >= 1 /\ IsKey(msg', {"enter"}) /\ vars' # vars) =>
        /\ Len(launches') = 1
        /\ launches'[1].url =
              "https://www.speedrun.com" \o m.notifications[m.selected + 1].Path
        /\ m'.selected = m.selected
        /\ m'.width = m.width /\ m'.height = m.height
        /\ m'.err = m.err
        /\ m'.notifications = m.notifications
        /\ Ready' /\ cmd' = "nil" /\ view'.kind = "list"

C4_EnterOpensSelected == [][C4_Step]_vars

\* an enter on an item after the first whose launch failed
C4_Witness ==
    /\ Ready /\ IsKey(msg, {"enter"}) /\ m.selected >= 1
    /\ Len(launches) = 1 /\ launches[1].returned # "nil"

\* C5: a response whose status is not 200 makes GetNotifications return an
\* error and no result; the error carries the status code and the body as
\* received, and the decoder is not run on the body. The decoder runs only
\* on a response with status 200.
C5_StatusError ==
    (Started /\ http.transport = "ok") =>
        /\ http.StatusCode # StatusOK =>
              /\ ~fetched.ok
              /\ fetched.result = ZeroResponse
              /\ fetched.err.kind = "unexpected status code"
              /\ fetched.err.code = http.StatusCode
              /\ fetched.err.body = <<http.Body>>
              /\ ~fetched.decoded
        /\ fetched.decoded => http.StatusCode = StatusOK

\* status 401 with the body "Unauthorized"
C5_Witness ==
    /\ Started /\ http.transport = "ok" /\ http.StatusCode = 401
    /\ http.Body = TextBody("Unauthorized")

\* C6 as stated: once the startup fetch has failed the controller stays in
\* the error state: the error is kept, the view is the error message, and no
\* event moves the selection, launches the browser, sends a request or
\* leaves the error state: Update returns the quit command on no event, and
\* the loop never ends on a quit command.
C6_ErrorStep ==
    ErrorState =>
        /\ m'.err = m.err
        /\ view'.kind = "error" /\ view'.err = m.err
        /\ m'.selected = m.selected
        /\ launches' = <<>>
        /\ requests' = requests
        /\ UpdateStep => (ErrorState' /\ cmd' = "nil" /\ ~quitting')
        /\ ~(quitting /\ pc' = "exited" /\ exitCode' = 0)

C6_ErrorStateIsFinal == [][C6_ErrorStep]_vars

\* C6 amended: once the startup fetch has failed, the error is kept, the view
\* is the error message, and no event moves the selection, launches the
\* browser or sends a request; the only events on which the controller gives
\* up the error state are q and ctrl+c: Update returns the quit command on
\* them and on no other event, and the session then ends with status 0 when
\* the quit message is received. (The session can also be ended from outside
\* the controller: a termination signal, a failure of p.Run.)
C6_AmendedStep ==
    ErrorState =>
        /\ m'.err = m.err
        /\ view'.kind = "error" /\ view'.err = m.err
        /\ m'.selected = m.selected
        /\ launches' = <<>>
        /\ requests' = requests
        /\ UpdateStep =>
              /\ ErrorState'
              /\ (cmd' = "quit") = IsKey(msg', {"q", "ctrl+c"})
              /\ quitting' = (quitting \/ IsKey(msg', {"q", "ctrl+c"}))
        /\ quitting => quitting'

C6_ErrorKeptUntilQuit == [][C6_AmendedStep]_vars

\* the session was ended with q after a failed fetch and a resize
C6_Witness ==
    /\ pc = "exited" /\ exitCode = 0 /\ quitting
    /\ m.err.kind = "unexpected status code"
    /\ m.width > 0 /\ IsKey(msg, {"q"}) /\ view.kind = "error"

\* C7 as stated: in the ready state q or ctrl+c ends the loop: the quit
\* command is returned with the model as it was, nothing is launched, and no
\* event is processed after it.
C7_Step ==
    /\ (Ready /\ UpdateStep /\ IsKey(msg', {"q", "ctrl+c"}) /\ vars' # vars) =>
          /\ cmd' = "quit" /\ quitting'
          /\ m' = m
          /\ launches' = <<>>
    /\ (quitting /\ m.err.kind = "nil") => ~UpdateStep
    /\ pc = "exited" => vars' = vars

C7_NoEventAfterQuit == [][C7_Step]_vars

\* C7 amended: in the ready state q or ctrl+c returns the quit command with
\* the model as it was and launches nothing; the quit stays on its way until
\* the loop ends, which it does with status 0 when the quit message is
\* received; events that reach the loop before the quit message are still
\* processed; the end of the loop runs no Update, and no event is processed
\* once the loop has ended.
C7_AmendedStep ==
    /\ (Ready /\ UpdateStep /\ IsKey(msg', {"q", "ctrl+c"}) /\ vars' # vars) =>
          /\ cmd' = "quit" /\ quitting'
          /\ m' = m
          /\ launches' = <<>>
    /\ quitting => quitting'
    /\ (pc = "run" /\ pc' = "exited") =>
          (m' = m /\ cmd' = cmd /\ launches' = launches /\ view' = view)
    /\ pc = "exited" => vars' = vars

C7_QuitEndsLoop == [][C7_AmendedStep]_vars

\* q or ctrl+c was pressed, a down that was waiting moved the selection after
\* it,
\* and the loop then ended on the quit message
C7_Witness ==
    /\ pc = "exited" /\ exitCode = 0 /\ m.err.kind = "nil" /\ quitting
    /\ IsKey(msg, {"down", "j"}) /\ m.selected >= 1

\* C8: the flag is checked before any request: with an empty or absent
\* -session the process ends with status 1 and no request sent; with a value,
\* exactly one request is sent in the whole run, whatever came of it.
C8_OneRequest ==
    /\ pc \in {"start", "fetch"} => requests = <<>>
    /\ (pc # "start" /\ ParseSession(args) = "") =>
          (pc = "exited" /\ exitCode = 1 /\ requests = <<>>)
    /\ (pc \in {"program", "run", "exited"} /\ ParseSession(args) # "") =>
          /\ Len(requests) = 1
          /\ requests[1].Cookie.Value = ParseSession(args)

\* a session ended after a transport failure and some key presses
C8_Witness ==
    /\ pc = "exited" /\ fetched.err.kind = "sending request"
    /\ Len(requests) = 1 /\ exitCode = 0

\* C9 as stated: up/k, down/j and enter are not handed to the viewport, so
\* they leave its scroll offset alone.
C9_OwnKeyStep ==
    (Ready /\ UpdateStep /\ IsKey(msg', {"up", "k", "down", "j", "enter"})) =>
        m'.viewport.YOffset = m.viewport.YOffset

C9_OwnKeysNotForwarded == [][C9_OwnKeyStep]_vars

\* C9 amended: every key but q and ctrl+c is handed to the viewport after
\* the controller has dealt with it. up/k and down/j also scroll the
\* viewport by one line unless it stands at the top or bottom of the
\* content; enter is bound to nothing there and leaves the offset alone; q
\* and ctrl+c leave the viewport alone.
C9_AmendedStep ==
    (Ready /\ UpdateStep /\ msg'.type = "key" /\ vars' # vars) =>
        LET y == m.viewport.YOffset
            top == maxYOffset(m'.viewport)
        IN  /\ IsKey(msg', {"down", "j"}) =>
                  m'.viewport.YOffset = IF y >= top THEN y ELSE y + 1
            /\ IsKey(msg', {"up", "k"}) =>
                  m'.viewport.YOffset = IF y <= 0 THEN y ELSE Min(y - 1, top)
            /\ IsKey(msg', {"enter"}) => m'.viewport.YOffset = y
            /\ IsKey(msg', {"q", "ctrl+c"}) => m'.viewport = m.viewport

C9_OwnKeysAlsoScroll == [][C9_AmendedStep]_vars

\* down moved the selection and scrolled the viewport
C9_Witness ==
    /\ Ready /\ IsKey(msg, {"down", "j"})
    /\ m.selected >= 1 /\ m.viewport.YOffset >= 1

\* C10: whenever the list view is painted, the viewport holds the rendering
\* of the whole list with the current selected index.
C10_ContentIsRendering ==
    (Started /\ view.kind = "list") =>
        Join(m.viewport.lines, SNL) = renderContent(m)

====
